---- MODULE Spec2Model ----
(***************************************************************************)
(* relped: pairwise relatedness table -> inferred pedigree graph.          *)
(* Model of src/main.go: the CLI pipeline of main() and the name-keyed     *)
(* Graph type it is built on.                                              *)
(*                                                                         *)
(* Representation choices                                                  *)
(*   - a name is a sequence of string chunks: "A" is <<"A">>, the known    *)
(*     individual "UnknownK" is <<"Unknown", "K">>, and a synthetic name   *)
(*     "Unknown" + xid is <<"Unknown", xid>>.  strings.Contains(name,      *)
(*     "Unknown") is then a search for the chunk "Unknown".                *)
(*   - a float64 is an exact rational <<num, den>> in lowest terms;        *)
(*     <<1, 0>> is +Inf, <<-1, 0>> is -Inf and <<0, 0>> is NaN, so that    *)
(*     weight / float64(0) is what IEEE-754 gives.  Rounding error of      *)
(*     float64 is not modelled.                                            *)
(*   - the gonum graph is a set of node ids, a function from 2-element     *)
(*     sets of ids to weights, and the id allocator (free list, maxID).    *)
(***************************************************************************)
EXTENDS Integers, Sequences, FiniteSets, TLC

VARIABLES flags, pc, records, vals, dists, idx, g, xidCtr, pruned,
          searched, ped, out, last, nOps

vars == <<flags, pc, records, vals, dists, idx, g, xidCtr, pruned,
          searched, ped, out, last, nOps>>

---------------------------------------------------------------------------
(* Bounds of the model *)

\* rows of the input table after the header
MaxRows == 2
\* largest value of --max-distance that is tried
MaxFlagDist == 3
\* number of Graph method calls in the API specification
MaxApiOps == 4

\* k of path.YenKShortestPaths(self.g, 10, node1, node2)
K == 10

---------------------------------------------------------------------------
(* float64 as exact rationals *)

Abs(n) == IF n < 0 THEN 0 - n ELSE n

RECURSIVE GCD(_, _)
GCD(a, b) == IF b = 0 THEN a ELSE GCD(b, a % b)

Sign(n) == IF n > 0 THEN 1 ELSE IF n < 0 THEN 0 - 1 ELSE 0

\* n/d in lowest terms, d >= 0
Rat(n, d) ==
    IF d = 0 THEN <<Sign(n), 0>>
    ELSE LET c == GCD(Abs(n), d) IN <<n \div c, d \div c>>

Zero == <<0, 1>>
One == <<1, 1>>
NaN == <<0, 0>>

IsNaN(a) == a = NaN
IsFinite(a) == a[2] # 0

\* a / float64(k), k an unsigned integer
FDivInt(a, k) ==
    IF ~IsFinite(a) THEN a
    ELSE IF k = 0 THEN <<Sign(a[1]), 0>>
    ELSE Rat(a[1], a[2] * k)

\* a + b on finite values; an infinite or NaN operand is absorbing
FAdd(a, b) ==
    IF IsNaN(a) \/ IsNaN(b) THEN NaN
    ELSE IF ~IsFinite(a) THEN a
    ELSE IF ~IsFinite(b) THEN b
    ELSE Rat(a[1] * b[2] + b[1] * a[2], a[2] * b[2])

FSub(a, b) == Rat(a[1] * b[2] - b[1] * a[2], a[2] * b[2])

\* a / b for finite a and finite b > 0
FDiv(a, b) == Rat(a[1] * b[2], a[2] * b[1])

\* a < b on finite values
FLess(a, b) == a[1] * b[2] < b[1] * a[2]

FLeq(a, b) == a[1] * b[2] <= b[1] * a[2]

RECURSIVE FSum(_)
FSum(ws) == IF ws = <<>> THEN Zero ELSE FAdd(Head(ws), FSum(Tail(ws)))

RECURSIVE Pow4(_)
Pow4(n) == IF n = 0 THEN 1 ELSE 4 * Pow4(n - 1)

\* largest level relToLevel is evaluated to
MaxLevel == 8

\* relToLevel(x): (0, false) if x <= 0, else (round(log2(1/x)), true).
\* For x = p/q in (0, 1]: round(log2(q/p)) = n  iff  2^(n-1/2) <= q/p < 2^(n+1/2)
\* iff  4^n p^2 <= 2 q^2 < 4^(n+1) p^2.
relToLevel(x) ==
    IF x[1] <= 0 THEN [dist |-> 0, rel |-> FALSE]
    ELSE [dist |-> CHOOSE n \in 0..MaxLevel :
                       /\ Pow4(n) * x[1] * x[1] <= 2 * x[2] * x[2]
                       /\ 2 * x[2] * x[2] < Pow4(n + 1) * x[1] * x[1],
          rel |-> TRUE]

RECURSIVE FMin(_)
FMin(S) ==
    LET a == CHOOSE x \in S : TRUE
    IN IF S = {a} THEN a
       ELSE LET m == FMin(S \ {a}) IN IF FLess(a, m) THEN a ELSE m

RECURSIVE FMax(_)
FMax(S) ==
    LET a == CHOOSE x \in S : TRUE
    IN IF S = {a} THEN a
       ELSE LET m == FMax(S \ {a}) IN IF FLess(m, a) THEN a ELSE m

Range(s) == {s[k] : k \in DOMAIN s}

\* normalize(vals): rescale by the min and max of vals with 0 and 1 appended
normalize(vs) ==
    LET min == FMin(Range(vs) \cup {Zero, One})
        max == FMax(Range(vs) \cup {Zero, One})
    IN [k \in DOMAIN vs |-> FDiv(FSub(vs[k], min), FSub(max, min))]

\* the else branch: negatives replaced by 0
clipNegatives(vs) ==
    [k \in DOMAIN vs |-> IF FLess(vs[k], Zero) THEN Zero ELSE vs[k]]

---------------------------------------------------------------------------
(* Names *)

A == <<"A">>
B == <<"B">>
\* a known individual whose name happens to contain "Unknown"
UK == <<"Unknown", "K">>

Names == {A, B, UK}

\* strings.Contains(name, "Unknown")
ContainsUnknown(name) == \E k \in DOMAIN name : name[k] = "Unknown"

\* "Unknown" + xid.New().String(), for the n-th id the generator hands out
UnknownName(n) == <<"Unknown", ToString(n)>>

---------------------------------------------------------------------------
(* Graph: simple.WeightedUndirectedGraph plus the name index m *)

EmptyFn == [x \in {} |-> 0]

NewGraph ==
    [nodes |-> {}, edges |-> EmptyFn, m |-> EmptyFn, free |-> {}, maxID |-> 0 - 1]

\* self.g.NewNode(): id 0 for an empty graph, else a released id if there is
\* one (any of them: a Go map is ranged over), else maxID + 1
NewNodeIDs(G) ==
    IF G.nodes = {} THEN {0}
    ELSE IF G.free # {} THEN G.free
    ELSE {G.maxID + 1}

\* self.g.AddNode(n) of the gonum graph: the node is stored, its id is in use
UseNode(G, id) ==
    [G EXCEPT !.nodes = @ \cup {id},
              !.free = @ \ {id},
              !.maxID = IF id > @ THEN id ELSE @]

\* Graph.AddNode(name): the set of graphs it may leave
AddNode(G, name) ==
    IF name \in DOMAIN G.m THEN {G}
    ELSE {[UseNode(G, id) EXCEPT !.m = @ @@ (name :> id)] : id \in NewNodeIDs(G)}

\* neighbours of a node id in the gonum graph (none when the id is absent)
FromID(G, id) == {v \in G.nodes : {id, v} \in DOMAIN G.edges}

\* Graph.From(name), for a registered name
From(G, name) == FromID(G, G.m[name])

\* Graph.RemoveNode(name): the node and its edges leave the gonum graph and
\* its id is released; the entry of m stays
RemoveNode(G, name) ==
    IF name \in DOMAIN G.m /\ G.m[name] \in G.nodes
    THEN LET id == G.m[name]
             keep == {e \in DOMAIN G.edges : id \notin e}
         IN [G EXCEPT !.nodes = @ \ {id},
                      !.edges = [e \in keep |-> G.edges[e]],
                      !.free = @ \cup {id}]
    ELSE G

RECURSIVE RmDisconnectedOver(_, _)
RmDisconnectedOver(G, names) ==
    IF names = {} THEN G
    ELSE LET name == CHOOSE x \in names : TRUE
             G1 == IF From(G, name) = {} THEN RemoveNode(G, name) ELSE G
         IN RmDisconnectedOver(G1, names \ {name})

\* a loop that removes the nodes with at most one neighbour
RmDisconnectedLeaves(G) ==
    LET low == {n \in DOMAIN G.m : Cardinality(From(G, n)) <= 1}
        ids == {G.m[n] : n \in low} \cap G.nodes
        keep == {e \in DOMAIN G.edges : e \cap ids = {}}
    IN [G EXCEPT !.nodes = @ \ ids,
                 !.edges = [e \in keep |-> G.edges[e]],
                 !.free = @ \cup ids]

\* Graph.RmDisconnected(): for name := range self.m; removing a node without
\* neighbours changes no other node's neighbours, so the range order is immaterial
RmDisconnected(G) == RmDisconnectedOver(G, DOMAIN G.m)

\* Graph.NameFromID(id): the names the range over m may return first
NameFromID(G, id) ==
    LET hits == {name \in DOMAIN G.m : G.m[name] = id}
    IN IF hits = {} THEN {<<>>} ELSE hits

\* an insertion that adds the weight to the one the edge already carries
NewWeightedEdgeAccumulates(G, n1, n2, weight) ==
    LET uid == G.m[n1]
        vid == G.m[n2]
        e == {uid, vid}
        w == IF e \in DOMAIN G.edges THEN FAdd(G.edges[e], weight) ELSE weight
    IN IF uid = vid THEN [g |-> G, ok |-> FALSE]
       ELSE [g |-> [UseNode(UseNode(G, uid), vid)
                       EXCEPT !.edges = [x \in DOMAIN G.edges \cup {e} |->
                                             IF x = e THEN w ELSE G.edges[x]]],
             ok |-> TRUE]

\* Graph.NewWeightedEdge(n1, n2, weight): SetWeightedEdge panics on a self
\* edge (ok = FALSE), adds an absent endpoint, and overwrites the weight
NewWeightedEdge(G, n1, n2, weight) ==
    LET uid == G.m[n1]
        vid == G.m[n2]
        e == {uid, vid}
    IN IF uid = vid THEN [g |-> G, ok |-> FALSE]
       ELSE [g |-> [UseNode(UseNode(G, uid), vid)
                       EXCEPT !.edges = [x \in DOMAIN G.edges \cup {e} |->
                                             IF x = e THEN weight ELSE G.edges[x]]],
             ok |-> TRUE]

\* the loop of AddPath from position k on: results [g, ok]
RECURSIVE AddPathFrom(_, _, _, _)
AddPathFrom(G, names, weights, k) ==
    IF k > Len(names) THEN {[g |-> G, ok |-> TRUE]}
    ELSE UNION {
           UNION {
             LET r == NewWeightedEdge(G2, names[k - 1], names[k], weights[k - 1])
             IN IF r.ok THEN AddPathFrom(r.g, names, weights, k + 1) ELSE {r}
             : G2 \in AddNode(G1, names[k]) }
           : G1 \in AddNode(G, names[k - 1]) }

\* Graph.AddPath(names, weights); ok = FALSE is log.Fatalf or a panic
AddPath(G, names, weights) ==
    IF Len(weights) # Len(names) - 1 THEN {[g |-> G, ok |-> FALSE]}
    ELSE AddPathFrom(G, names, weights, 2)

\* a path of n - 1 unknowns: path := make([]string, n+1)
AddUnknownPathOneFewer(G, n1, n2, n, weight, ctr) ==
    LET incWeight == FDivInt(weight, n)
        len == IF n = 0 THEN 2 ELSE n + 1
        path == [k \in 1..len |->
                    IF k = 1 THEN n1
                    ELSE IF k = len THEN n2
                    ELSE UnknownName(ctr + k - 1)]
        weights == [k \in 1..(len - 1) |-> incWeight]
    IN AddPath(G, path, weights)

\* Graph.AddUnknownPath(n1, n2, n, weight); ctr ids were generated before
AddUnknownPath(G, n1, n2, n, weight, ctr) ==
    LET incWeight == FDivInt(weight, n)
        path == [k \in 1..(n + 2) |->
                    IF k = 1 THEN n1
                    ELSE IF k = n + 2 THEN n2
                    ELSE UnknownName(ctr + k - 1)]
        weights == [k \in 1..(n + 1) |-> incWeight]
    IN AddPath(G, path, weights)

---------------------------------------------------------------------------
(* path.YenKShortestPaths and Graph.PruneToShortest *)

\* neighbours reached over an edge Dijkstra can relax: dist + w < +Inf fails
\* for a weight of +Inf or NaN, so such an edge is never part of a path
RelaxFrom(G, id) == {v \in FromID(G, id) : IsFinite(G.edges[{id, v}])}

RECURSIVE Extend(_, _, _)
Extend(G, path, t) ==
    LET end == path[Len(path)]
    IN IF end = t THEN {path}
       ELSE UNION {Extend(G, Append(path, v), t) : v \in RelaxFrom(G, end) \ Range(path)}

\* the simple paths from s to t, as sequences of node ids
SimplePaths(G, s, t) == IF s \in G.nodes /\ t \in G.nodes THEN Extend(G, <<s>>, t) ELSE {}

PathWeight(G, path) ==
    FSum([k \in 1..(Len(path) - 1) |-> G.edges[{path[k], path[k + 1]}]])

\* the orders in which a set of paths is returned: ascending weight, ties in
\* search order (any)
RECURSIVE Ascending(_, _)
Ascending(G, S) ==
    IF S = {} THEN {<<>>}
    ELSE LET least == {p \in S : \A q \in S : FLeq(PathWeight(G, p), PathWeight(G, q))}
         IN UNION {{<<p>> \o r : r \in Ascending(G, S \ {p})} : p \in least}

\* the possible results of path.YenKShortestPaths(self.g, k, s, t): up to k
\* simple paths of least weight, in ascending order
YenKShortestPaths(G, k, s, t) ==
    LET all == SimplePaths(G, s, t)
        n == IF Cardinality(all) < k THEN Cardinality(all) ELSE k
        picks == IF n = Cardinality(all) THEN {all}
                 ELSE {S \in SUBSET all :
                         /\ Cardinality(S) = n
                         /\ \A p \in S, q \in all \ S :
                                FLeq(PathWeight(G, p), PathWeight(G, q))}
    IN UNION {Ascending(G, S) : S \in picks}

\* the names both loops of PruneToShortest keep
PruneNames(G) == {name \in DOMAIN G.m : ~ContainsUnknown(name)}

\* the orders a range over a set of names may take
RECURSIVE Orders(_)
Orders(S) ==
    IF S = {} THEN {<<>>}
    ELSE UNION {{<<x>> \o r : r \in Orders(S \ {x})} : x \in S}

\* the pairs (name1, name2) the nested loops reach, both ranging in order ord
PrunePairs(ord) ==
    LET n == Len(ord)
        all == [k \in 1..(n * n) |-> <<ord[((k - 1) \div n) + 1], ord[((k - 1) % n) + 1]>>]
    IN SelectSeq(all, LAMBDA pr : pr[1] # pr[2])

\* names[j] = self.NameFromID(paths[i][j].ID())
RECURSIVE NamesOf(_, _)
NamesOf(G, path) ==
    IF path = <<>> THEN {<<>>}
    ELSE {<<h>> \o r : h \in NameFromID(G, Head(path)), r \in NamesOf(G, Tail(path))}

\* weights[i-1] = self.WeightedEdge(names[i-1], names[i]).Weight()
WeightsOf(G, names) ==
    [k \in 1..(Len(names) - 1) |-> G.edges[{G.m[names[k]], G.m[names[k + 1]]}]]

\* the AddPath calls made for one result of the search
RECURSIVE CallsFor(_, _)
CallsFor(G, paths) ==
    IF paths = <<>> THEN {<<>>}
    ELSE {<<[names |-> ns, weights |-> WeightsOf(G, ns)]>> \o r :
            ns \in NamesOf(G, Head(paths)), r \in CallsFor(G, Tail(paths))}

PairCalls(G, pr) ==
    UNION {CallsFor(G, paths) : paths \in YenKShortestPaths(G, K, G.m[pr[1]], G.m[pr[2]])}

RECURSIVE PruneCalls(_, _)
PruneCalls(G, pairs) ==
    IF pairs = <<>> THEN {<<>>}
    ELSE {c \o r : c \in PairCalls(G, Head(pairs)), r \in PruneCalls(G, Tail(pairs))}

\* g.AddPath(names, weights) for each call in turn, from result R on
RECURSIVE FoldAddPath(_, _)
FoldAddPath(R, calls) ==
    IF calls = <<>> \/ ~R.ok THEN {R}
    ELSE UNION {FoldAddPath(R1, Tail(calls)) :
                  R1 \in AddPath(R.g, Head(calls).names, Head(calls).weights)}

\* Graph.PruneToShortest(): the results it may return, each with the set of
\* pairs the search ran for
PruneToShortest(G) ==
    UNION {{[g |-> r.g, ok |-> r.ok, pairs |-> Range(PrunePairs(ord))] :
              r \in UNION {FoldAddPath([g |-> NewGraph, ok |-> TRUE], calls) :
                             calls \in PruneCalls(G, PrunePairs(ord))}} :
             ord \in Orders(PruneNames(G))}

---------------------------------------------------------------------------
(* The input table *)

\* strconv.ParseFloat(field, 64) on the fields the model feeds it
ParseFloat(field) ==
    CASE field = "1" -> [ok |-> TRUE, val |-> <<1, 1>>]
      [] field = "0.5" -> [ok |-> TRUE, val |-> <<1, 2>>]
      [] field = "0.25" -> [ok |-> TRUE, val |-> <<1, 4>>]
      [] field = "0.125" -> [ok |-> TRUE, val |-> <<1, 8>>]
      [] field = "-0.5" -> [ok |-> TRUE, val |-> <<0 - 1, 2>>]
      [] OTHER -> [ok |-> FALSE, val |-> Zero]

MLRelateToDist(cat) ==
    CASE cat = "PO" -> [ok |-> TRUE, dist |-> 1]
      [] cat = "FS" -> [ok |-> TRUE, dist |-> 2]
      [] cat = "HS" -> [ok |-> TRUE, dist |-> 3]
      [] cat = "U" -> [ok |-> TRUE, dist |-> 0]
      [] OTHER -> [ok |-> FALSE, dist |-> 0]

\* the pairs (Indv1, Indv2) of a row; the graph is undirected, so one
\* orientation of each pair is fed
Pairs == {<<A, A>>, <<A, B>>, <<A, UK>>, <<B, UK>>}

\* rows of the three column format: Indv1, Indv2, Relatedness
RowsInput ==
    {[indv1 |-> pr[1], indv2 |-> pr[2], cat |-> "", rel |-> f] :
        pr \in Pairs, f \in {"x", "-0.5", "0.125", "0.25", "0.5", "1"}}

\* rows of an ML-Relate table: columns 0, 1, 2 (R) and 9 (Relatedness)
RowsMLRelate ==
    {[indv1 |-> pr[1], indv2 |-> pr[2], cat |-> c, rel |-> f] :
        pr \in Pairs, c \in {"PO", "FS", "HS", "U", "XX"}, f \in {"x", "0.5"}}

SeqsUpTo(S, n) == UNION {[1..k -> S] : k \in 0..n}

\* the switch of main: --input is looked at first
Mode == IF flags.fIn THEN "input" ELSE "mlrelate"

NoCall == [op |-> "none", called |-> FALSE, n1 |-> <<>>, n2 |-> <<>>, d |-> 0,
           w |-> Zero, pre |-> NewGraph]

NoOutput == [written |-> FALSE, nodes |-> {}, edges |-> {}]

---------------------------------------------------------------------------
(* main *)

Init ==
    /\ flags \in [fIn : BOOLEAN, fOut : BOOLEAN, fMLRelate : BOOLEAN,
                  opHelp : BOOLEAN, opNormalize : BOOLEAN, opRmUnrel : BOOLEAN,
                  opMaxDist : {1, MaxFlagDist}]
    /\ pc = "setup"
    /\ records = <<>>
    /\ vals = <<>>
    /\ dists = <<>>
    /\ idx = 1
    /\ g = NewGraph
    /\ xidCtr = 0
    /\ pruned = NewGraph
    /\ searched = {}
    /\ ped = [nodes |-> {}, edges |-> {}]
    /\ out = NoOutput
    /\ last = NoCall
    /\ nOps = 0

\* setup(): the flags are checked, os.Exit(1) on a failure state
Setup ==
    /\ pc = "setup"
    /\ pc' = IF \/ flags.opHelp
                \/ ~flags.fOut
                \/ (~flags.fIn /\ ~flags.fMLRelate)
                \/ (flags.fMLRelate /\ 3 <= flags.opMaxDist)
             THEN "exit1" ELSE "open"
    /\ UNCHANGED <<flags, records, vals, dists, idx, g, xidCtr, pruned, searched,
                   ped, out, last, nOps>>

\* os.Open or ReadAll fails: os.Exit(2)
OpenFails ==
    /\ pc = "open"
    /\ pc' = "exit2"
    /\ UNCHANGED <<flags, records, vals, dists, idx, g, xidCtr, pruned, searched,
                   ped, out, last, nOps>>

\* ReadAll returns the table; the header is dropped
ReadAll ==
    /\ pc = "open"
    /\ \E recs \in SeqsUpTo(IF Mode = "input" THEN RowsInput ELSE RowsMLRelate, MaxRows) :
          records' = recs
    /\ pc' = "parse"
    /\ idx' = 1
    /\ UNCHANGED <<flags, vals, dists, g, xidCtr, pruned, searched, ped, out, last, nOps>>

\* a parse loop that writes what it has when a field is bad
ParseRowWritesPartial ==
    /\ pc = "parse"
    /\ idx <= Len(records)
    /\ LET row == records[idx]
           dist == MLRelateToDist(row.cat)
           val == ParseFloat(row.rel)
           distOk == Mode = "input" \/ dist.ok
       IN /\ dists' = IF Mode = "mlrelate" /\ dist.ok THEN Append(dists, dist.dist) ELSE dists
          /\ vals' = IF distOk /\ val.ok THEN Append(vals, val.val) ELSE vals
          /\ pc' = IF distOk /\ val.ok THEN "parse" ELSE "exit2"
          /\ idx' = IF distOk /\ val.ok THEN idx + 1 ELSE idx
          /\ out' = IF distOk /\ val.ok THEN out ELSE [out EXCEPT !.written = TRUE]
    /\ UNCHANGED <<flags, records, g, xidCtr, pruned, searched, ped, last, nOps>>

\* one round of the loop that extracts the values: os.Exit(2) on a bad field
ParseRow ==
    /\ pc = "parse"
    /\ idx <= Len(records)
    /\ LET row == records[idx]
           dist == MLRelateToDist(row.cat)
           val == ParseFloat(row.rel)
           distOk == Mode = "input" \/ dist.ok
       IN /\ dists' = IF Mode = "mlrelate" /\ dist.ok THEN Append(dists, dist.dist) ELSE dists
          /\ vals' = IF distOk /\ val.ok THEN Append(vals, val.val) ELSE vals
          /\ pc' = IF distOk /\ val.ok THEN "parse" ELSE "exit2"
          /\ idx' = IF distOk /\ val.ok THEN idx + 1 ELSE idx
    /\ UNCHANGED <<flags, records, g, xidCtr, pruned, searched, ped, out, last, nOps>>

\* all values extracted: normalize or clip them, then g := NewGraph()
Normalize ==
    /\ pc = "parse"
    /\ idx > Len(records)
    /\ vals' = IF flags.opNormalize THEN normalize(vals) ELSE clipNegatives(vals)
    /\ g' = NewGraph
    /\ idx' = 1
    /\ pc' = "build"
    /\ UNCHANGED <<flags, records, dists, xidCtr, pruned, searched, ped, out, last, nOps>>

\* the distance of row k and whether the row reaches AddUnknownPath
RowDist(k) == IF Mode = "input" THEN relToLevel(vals[k]).dist ELSE dists[k]

RowPasses(k) ==
    /\ Mode = "input" => relToLevel(vals[k]).rel
    /\ RowDist(k) <= flags.opMaxDist
    /\ records[k].indv1 # records[k].indv2

\* one round of the loop that builds the graph
BuildRow ==
    /\ pc = "build"
    /\ idx <= Len(records)
    /\ LET row == records[idx]
           d == RowDist(idx)
       IN IF RowPasses(idx)
          THEN \E r \in AddUnknownPath(g, row.indv1, row.indv2, d, vals[idx], xidCtr) :
                  /\ g' = r.g
                  /\ xidCtr' = xidCtr + d
                  /\ pc' = IF r.ok THEN "build" ELSE "panic"
                  /\ last' = [op |-> "row", called |-> TRUE, n1 |-> row.indv1,
                              n2 |-> row.indv2, d |-> d, w |-> vals[idx], pre |-> g]
          ELSE /\ last' = [op |-> "row", called |-> FALSE, n1 |-> row.indv1,
                           n2 |-> row.indv2, d |-> d, w |-> vals[idx], pre |-> g]
               /\ UNCHANGED <<g, xidCtr, pc>>
    /\ idx' = idx + 1
    /\ UNCHANGED <<flags, records, vals, dists, pruned, searched, ped, out, nOps>>

\* all rows consumed: if *opRmUnrel { g.RmDisconnected() }
RemoveUnrelated ==
    /\ pc = "build"
    /\ idx > Len(records)
    /\ g' = IF flags.opRmUnrel THEN RmDisconnected(g) ELSE g
    /\ last' = [NoCall EXCEPT !.op = IF flags.opRmUnrel THEN "RmDisconnected" ELSE "none",
                               !.pre = g]
    /\ pc' = "prune"
    /\ UNCHANGED <<flags, records, vals, dists, idx, xidCtr, pruned, searched, ped, out, nOps>>

\* g = g.PruneToShortest(); the inflated graph stays in g for the record,
\* searched is the set of pairs the search ran for
Prune ==
    /\ pc = "prune"
    /\ \E r \in PruneToShortest(g) :
          /\ pruned' = r.g
          /\ pc' = IF r.ok THEN "emit" ELSE "panic"
          /\ searched' = r.pairs
    /\ UNCHANGED <<flags, records, vals, dists, idx, g, xidCtr, ped, out, last, nOps>>

\* the loop over g.WeightedEdges(): both endpoint names, then the edge
Emit ==
    /\ pc = "emit"
    /\ ped' = [nodes |-> UNION {NameFromID(pruned, u) : u \in UNION DOMAIN pruned.edges},
               edges |-> {UNION {NameFromID(pruned, u) : u \in e} : e \in DOMAIN pruned.edges}]
    /\ pc' = "create"
    /\ UNCHANGED <<flags, records, vals, dists, idx, g, xidCtr, pruned, searched, out, last, nOps>>

\* os.Create(*fOut) succeeds: the pedigree is written
WriteOutput ==
    /\ pc = "create"
    /\ out' = [written |-> TRUE, nodes |-> ped.nodes, edges |-> ped.edges]
    /\ pc' = "done"
    /\ UNCHANGED <<flags, records, vals, dists, idx, g, xidCtr, pruned, searched, ped, last, nOps>>

\* os.Create(*fOut) fails: main returns without a word
CreateFails ==
    /\ pc = "create"
    /\ pc' = "done"
    /\ UNCHANGED <<flags, records, vals, dists, idx, g, xidCtr, pruned, searched, ped, out, last, nOps>>

Next ==
    \/ Setup
    \/ OpenFails
    \/ ReadAll
    \/ ParseRow
    \/ Normalize
    \/ BuildRow
    \/ RemoveUnrelated
    \/ Prune
    \/ Emit
    \/ WriteOutput
    \/ CreateFails

Spec == Init /\ [][Next]_vars

---------------------------------------------------------------------------
(* The Graph type on its own: any sequence of its methods *)

\* largest n handed to AddUnknownPath
MaxApiDist == 2

ApiPathArgs ==
    {[names |-> <<A, B>>, weights |-> <<(<<1, 2>>)>>],
     [names |-> <<B, UK>>, weights |-> <<(<<1, 4>>)>>],
     [names |-> <<A, A>>, weights |-> <<(<<1, 2>>)>>],
     [names |-> <<A, B>>, weights |-> <<>>]}

InitApi ==
    /\ flags = [fIn |-> FALSE, fOut |-> FALSE, fMLRelate |-> FALSE, opHelp |-> FALSE,
                opNormalize |-> FALSE, opRmUnrel |-> FALSE, opMaxDist |-> 1]
    /\ pc = "api"
    /\ records = <<>>
    /\ vals = <<>>
    /\ dists = <<>>
    /\ idx = 1
    /\ g = NewGraph
    /\ xidCtr = 0
    /\ pruned = NewGraph
    /\ searched = {}
    /\ ped = [nodes |-> {}, edges |-> {}]
    /\ out = NoOutput
    /\ last = NoCall
    /\ nOps = 0

ApiFrame == UNCHANGED <<flags, records, vals, dists, idx, pruned, searched, ped, out>>

ApiAddNode ==
    /\ pc = "api" /\ nOps < MaxApiOps
    /\ \E name \in Names : \E G1 \in AddNode(g, name) :
          /\ g' = G1
          /\ last' = [NoCall EXCEPT !.op = "AddNode", !.n1 = name, !.pre = g]
    /\ nOps' = nOps + 1
    /\ UNCHANGED <<pc, xidCtr>>
    /\ ApiFrame

ApiAddPath ==
    /\ pc = "api" /\ nOps < MaxApiOps
    /\ \E arg \in ApiPathArgs : \E r \in AddPath(g, arg.names, arg.weights) :
          /\ g' = r.g
          /\ pc' = IF r.ok THEN "api" ELSE "panic"
          /\ last' = [NoCall EXCEPT !.op = "AddPath", !.pre = g]
    /\ nOps' = nOps + 1
    /\ UNCHANGED xidCtr
    /\ ApiFrame

ApiAddUnknownPath ==
    /\ pc = "api" /\ nOps < MaxApiOps
    /\ \E d \in 0..MaxApiDist : \E r \in AddUnknownPath(g, A, B, d, <<1, 2>>, xidCtr) :
          /\ g' = r.g
          /\ xidCtr' = xidCtr + d
          /\ pc' = IF r.ok THEN "api" ELSE "panic"
          /\ last' = [op |-> "AddUnknownPath", called |-> TRUE, n1 |-> A, n2 |-> B,
                      d |-> d, w |-> <<1, 2>>, pre |-> g]
    /\ nOps' = nOps + 1
    /\ ApiFrame

ApiRemoveNode ==
    /\ pc = "api" /\ nOps < MaxApiOps
    /\ \E name \in Names :
          /\ g' = RemoveNode(g, name)
          /\ last' = [NoCall EXCEPT !.op = "RemoveNode", !.n1 = name, !.pre = g]
    /\ nOps' = nOps + 1
    /\ UNCHANGED <<pc, xidCtr>>
    /\ ApiFrame

ApiRmDisconnected ==
    /\ pc = "api" /\ nOps < MaxApiOps
    /\ g' = RmDisconnected(g)
    /\ last' = [NoCall EXCEPT !.op = "RmDisconnected", !.pre = g]
    /\ nOps' = nOps + 1
    /\ UNCHANGED <<pc, xidCtr>>
    /\ ApiFrame

NextApi ==
    \/ ApiAddNode
    \/ ApiAddPath
    \/ ApiAddUnknownPath
    \/ ApiRemoveNode
    \/ ApiRmDisconnected

ApiSpec == InitApi /\ [][NextApi]_vars

---------------------------------------------------------------------------
(* Properties *)

\* AddUnknownPath has just been called for a row, with distance d >= 1
JustInflated == last.op = "row" /\ last.called /\ last.d >= 1

NewEdges == DOMAIN g.edges \ DOMAIN last.pre.edges

\* the nodes the call registered, the two endpoints aside
NewSynthetic == (DOMAIN g.m \ DOMAIN last.pre.m) \ {last.n1, last.n2}

\* the new edges are the links of one chain n1 - s_1 - ... - s_k - n2 through
\* the new synthetic nodes
IsChain ==
    \E ord \in Orders(NewSynthetic) :
        LET chain == <<last.n1>> \o ord \o <<last.n2>>
        IN NewEdges = {{g.m[chain[k]], g.m[chain[k + 1]]} : k \in 1..(Len(chain) - 1)}

RECURSIVE SumOver(_, _)
SumOver(G, E) ==
    IF E = {} THEN Zero
    ELSE LET e == CHOOSE x \in E : TRUE IN FAdd(G.edges[e], SumOver(G, E \ {e}))

\* C2: the edges AddUnknownPath(A, B, d, w) inserts each weigh w/d and their
\* weights sum to w.
C2_WeightPreserved ==
    JustInflated =>
        /\ \A e \in NewEdges : g.edges[e] = FDivInt(last.w, last.d)
        /\ SumOver(g, NewEdges) = last.w

Pruned == pc \in {"emit", "create", "done"}

\* the names of the input table that are nodes of the inflated graph
KnownNames ==
    {name \in DOMAIN g.m : \E k \in DOMAIN records :
        name \in {records[k].indv1, records[k].indv2}}

\* every simple path between two ids, over all edges of the graph
RECURSIVE ExtendAny(_, _, _)
ExtendAny(G, path, t) ==
    LET end == path[Len(path)]
    IN IF end = t THEN {path}
       ELSE UNION {ExtendAny(G, Append(path, v), t) : v \in FromID(G, end) \ Range(path)}

PathsBetween(G, a, b) ==
    IF a \in DOMAIN G.m /\ b \in DOMAIN G.m /\ G.m[a] \in G.nodes /\ G.m[b] \in G.nodes
    THEN ExtendAny(G, <<G.m[a]>>, G.m[b])
    ELSE {}

\* the edges between names a path of G stands for, with their weights
NamedEdges(G, path) ==
    {[ends |-> NameFromID(G, path[k]) \cup NameFromID(G, path[k + 1]),
      weight |-> G.edges[{path[k], path[k + 1]}]] : k \in 1..(Len(path) - 1)}

AllNamedEdges(G) ==
    {[ends |-> NameFromID(G, u) \cup NameFromID(G, v), weight |-> G.edges[{u, v}]] :
        <<u, v>> \in {pr \in G.nodes \X G.nodes : {pr[1], pr[2]} \in DOMAIN G.edges}}

\* the simple paths of least weight between a and b
LeastPaths(G, a, b) ==
    {p \in PathsBetween(G, a, b) :
        \A q \in PathsBetween(G, a, b) : FLeq(PathWeight(G, p), PathWeight(G, q))}

\* C3: after PruneToShortest, a pair of known individuals that several chains
\* connect in the inflated graph keeps one path only, the one of least weight;
\* the longer chains are gone.  Stated for the pairs the search runs for (no
\* "Unknown" in either name) whose chains have finite weights with a single
\* least one.
C3_OnePathPerPair ==
    Pruned =>
        \A a \in PruneNames(g), b \in PruneNames(g) :
            ( /\ a # b
              /\ Cardinality(PathsBetween(g, a, b)) >= 2
              /\ \A q \in PathsBetween(g, a, b) : IsFinite(PathWeight(g, q))
              /\ Cardinality(LeastPaths(g, a, b)) = 1 ) =>
                /\ Cardinality(PathsBetween(pruned, a, b)) = 1
                /\ \A p \in PathsBetween(pruned, a, b), q \in LeastPaths(g, a, b) :
                       NamedEdges(pruned, p) = NamedEdges(g, q)

\* what the claim calls a row that may modify the graph: the pair is related
\* at a distance d with 1 <= d <= maxDistance, and indv1 # indv2
RowRelated(k) ==
    IF Mode = "input" THEN FLess(Zero, vals[k]) ELSE records[k].cat # "U"

RowShouldInflate(k) ==
    /\ RowRelated(k)
    /\ RowDist(k) >= 1
    /\ RowDist(k) <= flags.opMaxDist
    /\ records[k].indv1 # records[k].indv2

\* C4: in both input modes a row modifies the inflated graph only if the pair
\* is related with 1 <= d <= maxDistance and indv1 # indv2; any other row adds
\* no node and no edge.
C4_OtherRowsAddNothing ==
    (pc = "build" /\ last.op = "row" /\ ~RowShouldInflate(idx - 1)) => g = last.pre

\* C5: RmDisconnected removes every node without neighbours and leaves every
\* node with a neighbour in place, with the same incident edges and weights.
C5_RmDisconnected ==
    last.op = "RmDisconnected" =>
        /\ \A id \in last.pre.nodes :
              IF FromID(last.pre, id) = {}
              THEN id \notin g.nodes
              ELSE /\ id \in g.nodes
                   /\ FromID(g, id) = FromID(last.pre, id)
                   /\ \A v \in FromID(g, id) : g.edges[{id, v}] = last.pre.edges[{id, v}]
        /\ g.nodes \subseteq last.pre.nodes
        /\ \A name \in DOMAIN last.pre.m :
              (last.pre.m[name] \in last.pre.nodes /\ From(last.pre, name) # {}) =>
                  /\ name \in DOMAIN g.m
                  /\ g.m[name] = last.pre.m[name]

C5_Witness ==
    /\ last.op = "RmDisconnected"
    /\ \E id \in last.pre.nodes : FromID(last.pre, id) = {} /\ id \notin g.nodes
    /\ \E id \in last.pre.nodes : FromID(last.pre, id) # {} /\ id \in g.nodes

\* C6: when exactly one simple path connects two known individuals in the
\* inflated graph, the pruned graph contains that path: the same names, the
\* same edges, the same weights.
C6_UniquePathKept ==
    Pruned =>
        \A a \in KnownNames, b \in KnownNames :
            (a # b /\ Cardinality(PathsBetween(g, a, b)) = 1) =>
                \A p \in PathsBetween(g, a, b) :
                    NamedEdges(g, p) \subseteq AllNamedEdges(pruned)

RowWellFormed(row) ==
    /\ ParseFloat(row.rel).ok
    /\ Mode = "mlrelate" => MLRelateToDist(row.cat).ok

\* C7: the output is written only after every row has been parsed and the
\* graph has been built and pruned; a run that a malformed row or a contract
\* violation ends writes nothing.
C7_NoPartialOutput ==
    /\ out.written =>
          /\ pc = "done"
          /\ Len(vals) = Len(records)
          /\ \A k \in DOMAIN records : RowWellFormed(records[k])
          /\ idx > Len(records)
          /\ out.edges = {ne.ends : ne \in AllNamedEdges(pruned)}
    /\ pc \in {"setup", "open"} => ~out.written
    /\ pc \in {"exit1", "exit2", "panic"} => ~out.written
    /\ (\E k \in DOMAIN records : ~RowWellFormed(records[k])) => ~out.written

C7_Witness ==
    /\ out.written
    /\ Len(records) >= 2
    /\ out.edges # {}

\* C8: the search runs for every pair of distinct known individuals, whatever
\* their names, and for no pair that includes a synthetic individual.
C8_EveryKnownPairSearched ==
    Pruned => searched = {pr \in KnownNames \X KnownNames : pr[1] # pr[2]}

\* C9: every edge of the pruned graph is an edge between the same two names in
\* the inflated graph, with the same weight.
C9_PrunedIsSubgraph ==
    Pruned => AllNamedEdges(pruned) \subseteq AllNamedEdges(g)

\* two chains of the inflated graph are both re-inserted, each for (A, B) and
\* for (B, A)
C9_Witness ==
    /\ Pruned
    /\ Cardinality(PathsBetween(g, A, B)) >= 2
    /\ Cardinality(DOMAIN pruned.edges) >= 4

\* C10: the name index and the graph agree: every indexed name maps to a node
\* of the graph, distinct names map to distinct ids, and NameFromID inverts
\* the index.
C10_IndexAgrees ==
    \A name \in DOMAIN g.m :
        /\ g.m[name] \in g.nodes
        /\ NameFromID(g, g.m[name]) = {name}

====
